---- MODULE Spec2Model ----
(***************************************************************************)
(* Model of elfantasma/simulation.py: the frame job                        *)
(* (SingleImageSimulation.__call__, slice_atom_data) and the dispatcher    *)
(* (Simulation.run) in its sequential and pooled modes.                    *)
(*                                                                         *)
(* Frame indices are 0-based as in the source.  Arrays are sequences of    *)
(* rows (1-based in TLA+, so Python row r is element r + 1).               *)
(* z coordinates are integers; slab bounds are rationals with denominator  *)
(* num_slices and are stored multiplied by num_slices.                     *)
(***************************************************************************)
EXTENDS Integers, Sequences, FiniteSets, TLC

\* ------------------------------------------------------------------ bounds
MaxFrames == 3
MaxWorkers == 3
MaxAtoms == 3
MaxZ == 4
MaxSlices == 3
MaxPad == 1
MaxMargin == 1
MaxDet == 2

\* The value of an unset attribute or an unwritten slot (Python None).
None == "None"

Min(a, b) == IF a <= b THEN a ELSE b
Max(a, b) == IF a >= b THEN a ELSE b

\* ------------------------------------------------- pure parts of the job

\* numpy.min / numpy.max of a non-empty array of z values.
SeqMin(s) == CHOOSE m \in {s[k] : k \in 1..Len(s)} : \A k \in 1..Len(s) : m <= s[k]
SeqMax(s) == CHOOSE m \in {s[k] : k \in 1..Len(s)} : \A k \in 1..Len(s) : m >= s[k]

\* The upper bound of slab i (times num_slices): (i + 1) * spec_lz, and for
\* the last slab max(z1, max_z + 1).
SlabUpper_nominal(i, length_z, num_slices, max_z) == (i + 1) * length_z
SlabUpper(i, length_z, num_slices, max_z) ==
    IF i = num_slices - 1
    THEN Max((i + 1) * length_z, (max_z + 1) * num_slices)
    ELSE (i + 1) * length_z

\* The mask (atom_z >= z0) & (atom_z < z1), as the set of selected atom
\* positions; z0n and z1n are the bounds times num_slices.
Selection(atom_z, z0n, z1n, num_slices) ==
    {k \in 1..Len(atom_z) : atom_z[k] * num_slices >= z0n /\ atom_z[k] * num_slices < z1n}

\* Slab i as yielded: (z0, z1 - z0, atoms), bounds times num_slices.
Slab(atom_z, i, length_z, num_slices) ==
    LET z0n == i * length_z
        z1n == SlabUpper(i, length_z, num_slices, SeqMax(atom_z))
    IN  [z0 |-> z0n, lz |-> z1n - z0n, atoms |-> Selection(atom_z, z0n, z1n, num_slices)]

\* The slabs of range(lo, num_slices) that pass the count_nonzero test, in
\* loop order.
RECURSIVE YieldFrom_all(_, _, _, _)
YieldFrom_all(atom_z, lo, length_z, num_slices) ==
    IF lo >= num_slices THEN << >>
    ELSE <<Slab(atom_z, lo, length_z, num_slices)>>
            \o YieldFrom_all(atom_z, lo + 1, length_z, num_slices)
RECURSIVE YieldFrom(_, _, _, _)
YieldFrom(atom_z, lo, length_z, num_slices) ==
    IF lo >= num_slices THEN << >>
    ELSE LET s == Slab(atom_z, lo, length_z, num_slices)
             rest == YieldFrom(atom_z, lo + 1, length_z, num_slices)
         IN  IF Cardinality(s.atoms) > 0 THEN <<s>> \o rest ELSE rest

\* list(slice_atom_data(atom_data, length_z, num_slices)): the assertions
\* and numpy.min of an empty array raise before the first yield.
slice_atom_data_nomax(atom_z, length_z, num_slices) ==
    IF ~(length_z > 0) THEN [raised |-> TRUE, why |-> "length_z", slices |-> << >>]
    ELSE IF ~(num_slices > 0) THEN [raised |-> TRUE, why |-> "num_slices", slices |-> << >>]
    ELSE IF Len(atom_z) = 0 THEN [raised |-> TRUE, why |-> "empty", slices |-> << >>]
    ELSE IF ~(SeqMin(atom_z) >= 0) THEN [raised |-> TRUE, why |-> "min_z", slices |-> << >>]
    ELSE [raised |-> FALSE, why |-> None,
          slices |-> YieldFrom(atom_z, 0, length_z, num_slices)]
slice_atom_data_unchecked(atom_z, length_z, num_slices) ==
    IF Len(atom_z) = 0 THEN [raised |-> TRUE, why |-> "empty", slices |-> << >>]
    ELSE IF ~(SeqMin(atom_z) >= 0) THEN [raised |-> TRUE, why |-> "min_z", slices |-> << >>]
    ELSE IF ~(SeqMax(atom_z) <= length_z) THEN [raised |-> TRUE, why |-> "max_z", slices |-> << >>]
    ELSE [raised |-> FALSE, why |-> None,
          slices |-> YieldFrom(atom_z, 0, length_z, num_slices)]
slice_atom_data(atom_z, length_z, num_slices) ==
    IF ~(length_z > 0) THEN [raised |-> TRUE, why |-> "length_z", slices |-> << >>]
    ELSE IF ~(num_slices > 0) THEN [raised |-> TRUE, why |-> "num_slices", slices |-> << >>]
    ELSE IF Len(atom_z) = 0 THEN [raised |-> TRUE, why |-> "empty", slices |-> << >>]
    ELSE IF ~(SeqMin(atom_z) >= 0) THEN [raised |-> TRUE, why |-> "min_z", slices |-> << >>]
    ELSE IF ~(SeqMax(atom_z) <= length_z) THEN [raised |-> TRUE, why |-> "max_z", slices |-> << >>]
    ELSE [raised |-> FALSE, why |-> None,
          slices |-> YieldFrom(atom_z, 0, length_z, num_slices)]

\* ideal_image.shape of a 2-D array held as a sequence of rows.
Shape(a) == <<Len(a), IF Len(a) = 0 THEN 0 ELSE Len(a[1])>>

\* a[j0:j1, i0:i1] for 0 <= j0 < j1 <= shape[0] and 0 <= i0 < i1 <= shape[1].
Slice2D(a, j0, j1, i0, i1) ==
    [r \in 1..(j1 - j0) |-> [c \in 1..(i1 - i0) |-> a[j0 + r][i0 + c]]]

\* "Remove margin": the crop of the raw field and its three assertions.
RemoveMargin_keeplast(ideal_image, margin) ==
    LET j1 == Shape(ideal_image)[1]
        i1 == Shape(ideal_image)[2]
    IN  IF ~(margin >= 0 /\ i1 > margin /\ j1 > margin)
        THEN [raised |-> TRUE, why |-> "margin", image |-> << >>]
        ELSE [raised |-> FALSE, why |-> None,
              image |-> Slice2D(ideal_image, margin, j1, margin, i1)]
RemoveMargin(ideal_image, margin) ==
    LET j0 == margin
        i0 == margin
        j1 == Shape(ideal_image)[1] - margin
        i1 == Shape(ideal_image)[2] - margin
    IN  IF ~(margin >= 0) THEN [raised |-> TRUE, why |-> "margin", image |-> << >>]
        ELSE IF ~(i1 > i0) THEN [raised |-> TRUE, why |-> "i1", image |-> << >>]
        ELSE IF ~(j1 > j0) THEN [raised |-> TRUE, why |-> "j1", image |-> << >>]
        ELSE [raised |-> FALSE, why |-> None,
              image |-> Slice2D(ideal_image, j0, j1, i0, i1)]

\* ------------------------------------------------------------ the frame job
VARIABLES
    sim,        \* the Simulation object: scan, detector, margin, num_slices, ...;
                \* configured_max_workers keeps cluster["max_workers"] as configured
    writer,     \* the writer: shape, data[i] and angle[i]
    pc,         \* where Simulation.run is
    next_i,     \* the loop variable of the sequential loop and of the submit loop
    pool,       \* the executor: whether created, its workers, the scatter calls made
    futures,    \* the list `futures`, one record per submitted job
    yielded,    \* the positions in `futures` that as_completed has yielded
    error,      \* the exception that left Simulation.run, None otherwise
    nwrites,    \* per slot, how many times it has been assigned
    nexec,      \* per frame index, how many times the job has been executed
    history,    \* the (slot, result index) pairs of the writes, in order
    slice_in, slice_out,   \* input and output of one slice_atom_data call
    crop_in, crop_out,     \* input and output of one margin removal
    pot_in, pot_out        \* input and output of one projected-potential callback

vars == <<sim, writer, pc, next_i, pool, futures, yielded, error, nwrites, nexec,
          history, slice_in, slice_out, crop_in, crop_out, pot_in, pot_out>>
runVars == <<sim, writer, pc, next_i, pool, futures, yielded, error, nwrites, nexec,
             history>>
sliceVars == <<slice_in, slice_out>>
cropVars == <<crop_in, crop_out>>
potVars == <<pot_in, pot_out>>
pureVars == <<slice_in, slice_out, crop_in, crop_out, pot_in, pot_out>>

\* len(self.scan)
NumFrames == Len(sim.angles)
Frames == 0..(NumFrames - 1)

\* Simulation.shape: (nz, ny, nx)
SimShape == <<NumFrames, sim.ny, sim.nx>>

\* create_input_multislice: the sampling handed to the engine.
InputNx(nx, margin) == nx + margin * 2
InputNy(ny, margin) == ny + margin * 2

\* The engine's intensity field for frame i: one value per pixel of the
\* sampling it was given, a fixed function of the frame and the pixel.
EngineField(i, ny, nx) ==
    [r \in 1..ny |-> [c \in 1..nx |-> 100 * (i + 1) + 10 * r + c]]

\* numpy.random.poisson(electrons_per_pixel * ideal_image): one of the
\* draws, per pixel; `draw` picks which.
Poisson(rate, ideal_image, draw) ==
    [r \in 1..Len(ideal_image) |->
        [c \in 1..Len(ideal_image[r]) |-> rate * ideal_image[r][c] + draw]]

\* The noise step: with a rate (electrons_per_pixel is not None, has_rate)
\* the result is the 1-tuple (poisson(...),), otherwise the ideal image.
NoiseModel(has_rate, electrons_per_pixel, ideal_image, draw) ==
    IF has_rate
    THEN [ndim |-> 3, a |-> Poisson(electrons_per_pixel, ideal_image, draw)]
    ELSE [ndim |-> 2, a |-> ideal_image]

NoImage == [ndim |-> 0, a |-> << >>]
Raise(i, why) == [raised |-> TRUE, why |-> why, i |-> i, angle |-> 0, image |-> NoImage]

\* SingleImageSimulation.__call__(simulation, i).  `eng` is what the engine
\* does when called ("ok" or "raise"), `draw` the noise draw.
SingleImageSimulation(s, i, eng, draw) ==
    LET angle == s.angles[i + 1]
        sliced == slice_atom_data(s.atom_z, s.box_z, s.num_slices)
        raw == EngineField(i, InputNy(s.ny, s.margin), InputNx(s.nx, s.margin))
        crop == RemoveMargin(raw, s.margin)
    IN  IF s.num_slices # 1 /\ sliced.raised THEN Raise(i, sliced.why)
        ELSE IF eng = "raise" THEN Raise(i, "engine")
        ELSE IF crop.raised THEN Raise(i, crop.why)
        ELSE [raised |-> FALSE, why |-> None, i |-> i, angle |-> angle,
              image |-> NoiseModel(s.has_rate, s.electrons_per_pixel, crop.image, draw)]

\* -------------------------------------------------------------- the writer

\* The writer as allocated: zero-filled data and angle arrays.
NewWriter(nz, ny, nx) ==
    [shape |-> <<nz, ny, nx>>,
     data  |-> [i \in 0..(nz - 1) |-> [r \in 1..ny |-> [c \in 1..nx |-> 0]]],
     angle |-> [i \in 0..(nz - 1) |-> 0]]

\* numpy's broadcast of the assigned value to the (ny, nx) slot: a leading
\* axis of length 1 (the 1-tuple) is dropped.
Broadcasts(image, ny, nx) ==
    image.ndim \in {2, 3} /\ Shape(image.a) = <<ny, nx>>

\* The slot a result is written to: the index in the result, not the
\* position j of the result in completion order.
WriteIndex_position(i, j) == j
WriteIndex(i, j) == i

\* writer.data[i, :, :] = image; writer.angle[i] = angle
WriteResult_noangle(w, i, angle, image) ==
    [w EXCEPT !.data[i] = image.a]
WriteResult(w, i, angle, image) ==
    [w EXCEPT !.data[i] = image.a, !.angle[i] = angle]

\* ------------------------------------------------------------ Simulation.run

EngineOutcomes == {"ok", "raise"}
NoiseDraws == {0, 1}

\* enumerate(self.scan.angles): the index that follows i.
NextIndex_stuck(i) == i
NextIndex_skip(i) == i + 2
NextIndex(i) == i + 1

\* writer.shape == self.shape
ShapeMatches_plane(writer_shape, sim_shape) ==
    writer_shape[2] = sim_shape[2] /\ writer_shape[3] = sim_shape[3]
ShapeMatches(writer_shape, sim_shape) == writer_shape = sim_shape

\* future.result(): the job's return value, or its exception raised again.
FutureResult_swallow(f) ==
    IF f.result.raised
    THEN [raised |-> FALSE, why |-> None, i |-> f.i, angle |-> 0,
          image |-> [ndim |-> 2, a |-> [r \in 1..sim.ny |-> [c \in 1..sim.nx |-> 0]]]]
    ELSE f.result
FutureResult(f) == f.result

\* The worker count the pool is created with.
ClampWorkers_requested(max_workers, nframes) == max_workers
ClampWorkers(max_workers, nframes) == Min(max_workers, nframes)

\* assert writer.shape == self.shape, then the branch on cluster["method"].
CheckShape ==
    /\ pc = "start"
    /\ IF ~ShapeMatches(writer.shape, SimShape)
       THEN pc' = "failed" /\ error' = "shape"
       ELSE /\ pc' = IF sim.cluster.method = None THEN "loop" ELSE "clamp"
            /\ error' = error
    /\ UNCHANGED <<sim, writer, next_i, pool, futures, yielded, nwrites, nexec, history>>
    /\ UNCHANGED pureVars

\* One iteration of the sequential loop: run the job, write its result.
SeqIter(eng, draw) ==
    /\ pc = "loop"
    /\ next_i < NumFrames
    /\ LET res == SingleImageSimulation(sim, next_i, eng, draw)
       IN  /\ nexec' = [nexec EXCEPT ![next_i] = @ + 1]
           /\ IF res.raised
              THEN /\ pc' = "failed" /\ error' = res.why
                   /\ UNCHANGED <<writer, next_i, nwrites, history>>
              ELSE IF ~Broadcasts(res.image, sim.ny, sim.nx)
              THEN /\ pc' = "failed" /\ error' = "broadcast"
                   /\ UNCHANGED <<writer, next_i, nwrites, history>>
              ELSE /\ writer' = WriteResult(writer, next_i, res.angle, res.image)
                   /\ nwrites' = [nwrites EXCEPT ![next_i] = @ + 1]
                   /\ history' = Append(history, <<next_i, res.i>>)
                   /\ next_i' = NextIndex(next_i)
                   /\ UNCHANGED <<pc, error>>
    /\ UNCHANGED <<sim, pool, futures, yielded>>
    /\ UNCHANGED pureVars

\* The sequential loop is exhausted: run returns.
SeqReturn ==
    /\ pc = "loop"
    /\ next_i = NumFrames
    /\ pc' = "done"
    /\ UNCHANGED <<sim, writer, next_i, pool, futures, yielded, error, nwrites, nexec, history>>
    /\ UNCHANGED pureVars

\* self.cluster["max_workers"] = min(self.cluster["max_workers"], self.shape[0])
SetMaxWorkers ==
    /\ pc = "clamp"
    /\ sim' = [sim EXCEPT !.cluster.max_workers = ClampWorkers(@, NumFrames)]
    /\ pc' = "factory"
    /\ UNCHANGED <<writer, next_i, pool, futures, yielded, error, nwrites, nexec, history>>
    /\ UNCHANGED pureVars

\* elfantasma.futures.factory(**self.cluster): the pool is created with the
\* configured worker count; a pool of no workers may be refused.
Factory(refuse) ==
    /\ pc = "factory"
    /\ IF refuse /\ sim.cluster.max_workers < 1
       THEN pc' = "failed" /\ error' = "factory" /\ pool' = pool
       ELSE /\ pool' = [created |-> TRUE, workers |-> sim.cluster.max_workers, scatters |-> 0]
            /\ pc' = "scatter"
            /\ error' = error
    /\ UNCHANGED <<sim, writer, next_i, futures, yielded, nwrites, nexec, history>>
    /\ UNCHANGED pureVars

\* remote_self = executor.scatter(self, broadcast=True)
Scatter_skip ==
    /\ pc = "scatter"
    /\ pc' = "submit"
    /\ UNCHANGED <<sim, writer, next_i, pool, futures, yielded, error, nwrites, nexec, history>>
    /\ UNCHANGED pureVars
Scatter ==
    /\ pc = "scatter"
    /\ pool' = [pool EXCEPT !.scatters = @ + 1]
    /\ pc' = "submit"
    /\ UNCHANGED <<sim, writer, next_i, futures, yielded, error, nwrites, nexec, history>>
    /\ UNCHANGED pureVars

\* remote_self, the first argument of every submit: the handle of the
\* n-th scatter call made on the pool, 0 when nothing was scattered.
RemoteSelf == pool.scatters

\* One iteration of the submit loop, and the end of that loop.
Submit ==
    /\ pc = "submit"
    /\ IF next_i < NumFrames
       THEN /\ futures' = Append(futures, [i |-> next_i, state |-> "pending",
                                           handle |-> RemoteSelf,
                                           result |-> Raise(next_i, None)])
            /\ next_i' = NextIndex(next_i)
            /\ pc' = pc
       ELSE /\ pc' = "collect"
            /\ UNCHANGED <<futures, next_i>>
    /\ UNCHANGED <<sim, writer, pool, yielded, error, nwrites, nexec, history>>
    /\ UNCHANGED pureVars

Running == {k \in 1..Len(futures) : futures[k].state = "running"}

\* A worker of the pool takes the oldest pending job.
StartJob(k) ==
    /\ k \in 1..Len(futures)
    /\ futures[k].state = "pending"
    /\ \A m \in 1..(k - 1) : futures[m].state # "pending"
    /\ Cardinality(Running) < pool.workers
    /\ futures' = [futures EXCEPT ![k].state = "running"]
    /\ nexec' = [nexec EXCEPT ![futures[k].i] = @ + 1]
    /\ UNCHANGED <<sim, writer, pc, next_i, pool, yielded, error, nwrites, history>>
    /\ UNCHANGED pureVars

\* A running job ends: single_image_simulator(remote_self, i) returns or raises.
FinishJob(k, eng, draw) ==
    /\ k \in 1..Len(futures)
    /\ futures[k].state = "running"
    /\ futures' = [futures EXCEPT
                     ![k].state = "finished",
                     ![k].result = SingleImageSimulation(sim, futures[k].i, eng, draw)]
    /\ UNCHANGED <<sim, writer, pc, next_i, pool, yielded, error, nwrites, nexec, history>>
    /\ UNCHANGED pureVars

\* as_completed can yield future k: its job has ended, whatever the state
\* of the futures submitted before it.
Ready_inorder(k) ==
    futures[k].state = "finished" /\ \A m \in 1..(k - 1) : m \in yielded
Ready(k) == futures[k].state = "finished"

\* The dispatcher is inside the as_completed loop: an exception that left
\* the loop body has left the loop and run.
InAsCompleted_resumed == pc \in {"collect", "failed"}
InAsCompleted == pc = "collect"

\* One iteration of the as_completed loop: the next completed future k is
\* yielded as the j-th, future.result() returns or raises, the result is
\* written.
Collect(k) ==
    /\ InAsCompleted
    /\ k \in 1..Len(futures)
    /\ k \notin yielded
    /\ Ready(k)
    /\ yielded' = yielded \cup {k}
    /\ LET res == FutureResult(futures[k])
           j == Cardinality(yielded)
           slot == WriteIndex(res.i, j)
       IN  IF res.raised
           THEN /\ pc' = "failed" /\ error' = res.why
                /\ UNCHANGED <<writer, nwrites, history>>
           ELSE IF ~Broadcasts(res.image, sim.ny, sim.nx)
           THEN /\ pc' = "failed" /\ error' = "broadcast"
                /\ UNCHANGED <<writer, nwrites, history>>
           ELSE /\ writer' = WriteResult(writer, slot, res.angle, res.image)
                /\ nwrites' = [nwrites EXCEPT ![slot] = @ + 1]
                /\ history' = Append(history, <<slot, res.i>>)
                /\ UNCHANGED <<pc, error>>
    /\ UNCHANGED <<sim, next_i, pool, futures, nexec>>
    /\ UNCHANGED pureVars

\* as_completed(futures) has yielded every future.
AsCompletedExhausted_early == yielded # {}
AsCompletedExhausted == yielded = 1..Len(futures)

\* as_completed is exhausted, the executor's block is left: run returns.
PoolReturn ==
    /\ pc = "collect"
    /\ AsCompletedExhausted
    /\ pc' = "done"
    /\ UNCHANGED <<sim, writer, next_i, pool, futures, yielded, error, nwrites, nexec, history>>
    /\ UNCHANGED pureVars

\* ------------------------------------------------- one slice_atom_data call

SliceIdle == [atom_z |-> << >>, length_z |-> 0, num_slices |-> 0]
NotRun == [done |-> FALSE, raised |-> FALSE, why |-> None]

RECURSIVE SeqsUpTo(_, _)
SeqsUpTo(S, n) ==
    IF n = 0 THEN {<< >>}
    ELSE LET shorter == SeqsUpTo(S, n - 1)
         IN  shorter \cup {Append(q, x) : q \in {t \in shorter : Len(t) = n - 1}, x \in S}

SliceCall ==
    /\ ~slice_out.done
    /\ slice_out' = [done |-> TRUE] @@
                    slice_atom_data(slice_in.atom_z, slice_in.length_z, slice_in.num_slices)
    /\ UNCHANGED <<slice_in, crop_in, crop_out, pot_in, pot_out>>
    /\ UNCHANGED runVars

\* --------------------------------------------------- one margin removal

CropIdle == [i |-> 0, ny |-> 1, nx |-> 1, margin |-> 0, pad_y |-> 0, pad_x |-> 0]

\* The raw field the crop is applied to: the engine's field for a sampling
\* of (ny + 2 margin + pad_y, nx + 2 margin + pad_x).
RawField(c) ==
    EngineField(c.i, InputNy(c.ny, c.margin) + c.pad_y, InputNx(c.nx, c.margin) + c.pad_x)

CropCall ==
    /\ ~crop_out.done
    /\ crop_out' = [done |-> TRUE] @@ RemoveMargin(RawField(crop_in), crop_in.margin)
    /\ UNCHANGED <<crop_in, slice_in, slice_out, pot_in, pot_out>>
    /\ UNCHANGED runVars

\* ------------------------------------- one projected-potential callback

PotIdle == [ny |-> 1, nx |-> 1, margin |-> 0, pad_y |-> 0, pad_x |-> 0,
            z0 |-> 0, z1 |-> 1, volume_z0 |-> 0, volume_z1 |-> 1,
            slice_thickness |-> 1]

\* zsize, the number of z-slots of the potential file.
ZSize(p) == (p.volume_z1 - p.volume_z0) \div p.slice_thickness

\* The new potential file: zsize slots of shape (ny, nx), all zero.
NewPotential(p) == [z \in 1..ZSize(p) |-> [r \in 1..p.ny |-> [c \in 1..p.nx |-> 0]]]

\* The array V the engine hands to the callback: first axis x, second axis
\* y, for a sampling of (nx + 2 margin + pad_x, ny + 2 margin + pad_y).
PotentialField(p) ==
    EngineField(0, Max(InputNx(p.nx, p.margin), 0) + p.pad_x,
                   Max(InputNy(p.ny, p.margin), 0) + p.pad_y)

\* A bound of a Python slice over an axis of length n, as an offset in 0..n.
SliceBound(x, n) == IF x < 0 THEN Max(x + n, 0) ELSE Min(x, n)

\* V[margin:-margin, margin:-margin]: its shape and its elements.
MarginSlice(V, margin) ==
    LET n0 == Shape(V)[1]
        n1 == Shape(V)[2]
        a0 == SliceBound(margin, n0)
        b0 == SliceBound(0 - margin, n0)
        a1 == SliceBound(margin, n1)
        b1 == SliceBound(0 - margin, n1)
        len0 == Max(b0 - a0, 0)
        len1 == Max(b1 - a1, 0)
    IN  [shape |-> <<len0, len1>>,
         data |-> [r \in 1..len0 |-> [c \in 1..len1 |-> V[a0 + r][a1 + c]]]]

\* a.T
Transpose(a) ==
    [shape |-> <<a.shape[2], a.shape[1]>>,
     data |-> [r \in 1..a.shape[2] |-> [c \in 1..a.shape[1] |-> a.data[c][r]]]]

\* Assignment of the array a to a slot of shape (ny, nx): numpy broadcasts
\* an axis of length one and refuses every other mismatch.
CanAssign(a, ny, nx) ==
    /\ a.shape[1] \in {1, ny}
    /\ a.shape[2] \in {1, nx}
Assigned(a, ny, nx) ==
    [r \in 1..ny |-> [c \in 1..nx |->
        a.data[IF a.shape[1] = 1 THEN 1 ELSE r][IF a.shape[2] = 1 THEN 1 ELSE c]]]

\* The z-slot index the callback computes: floor((zc - volume_z0) /
\* slice_thickness) with zc = (z0 + z1) / 2.
SlotIndex(p) == (p.z0 + p.z1 - 2 * p.volume_z0) \div (2 * p.slice_thickness)

\* The callback: the state of the potential file after it, or the raise.
callback(p) ==
    LET V == PotentialField(p)
        index == SlotIndex(p)
        zsize == ZSize(p)
        slot == IF index < 0 THEN index + zsize ELSE index
        value == Transpose(MarginSlice(V, p.margin))
    IN  IF ~(slot \in 0..(zsize - 1))
        THEN [raised |-> TRUE, why |-> "index", index |-> index,
              potential |-> NewPotential(p)]
        ELSE IF ~CanAssign(value, p.ny, p.nx)
        THEN [raised |-> TRUE, why |-> "shape", index |-> index,
              potential |-> NewPotential(p)]
        ELSE [raised |-> FALSE, why |-> None, index |-> index,
              potential |-> [NewPotential(p) EXCEPT
                                ![slot + 1] = Assigned(value, p.ny, p.nx)]]

PotentialCall ==
    /\ ~pot_out.done
    /\ pot_out' = [done |-> TRUE] @@ callback(pot_in)
    /\ UNCHANGED <<pot_in, slice_in, slice_out, crop_in, crop_out>>
    /\ UNCHANGED runVars

\* ------------------------------------------------------------ specifications

Margins == {-1, 0, 1}
SliceCounts == {0, 1, 2}
BoxSizes == {0, 2}
Samples == {<<0, 2>>, <<3>>}
AngleStarts == {-4}
AngleStep == 4
Methods == {None, "sge"}
Rate == 2

\* The scan of n frames starting at angle a0.
Scan(n, a0) == [k \in 1..n |-> a0 + AngleStep * (k - 1)]

RunInit ==
    /\ \E n \in 0..MaxFrames, a0 \in AngleStarts, method \in Methods,
          max_workers \in 1..MaxWorkers, margin \in Margins,
          num_slices \in SliceCounts, box_z \in BoxSizes, atom_z \in Samples,
          has_rate \in BOOLEAN, extra \in {0, 1} :
         /\ sim = [angles |-> Scan(n, a0), ny |-> 1, nx |-> 2, margin |-> margin,
                   num_slices |-> num_slices, box_z |-> box_z, atom_z |-> atom_z,
                   has_rate |-> has_rate, electrons_per_pixel |-> Rate,
                   cluster |-> [method |-> method, max_workers |-> max_workers],
                   configured_max_workers |-> max_workers]
         /\ writer = NewWriter(n + extra, 1, 2)
         /\ nwrites = [i \in 0..(n + extra - 1) |-> 0]
         /\ nexec = [i \in 0..(n - 1) |-> 0]
    /\ pc = "start"
    /\ next_i = 0
    /\ pool = [created |-> FALSE, workers |-> 0, scatters |-> 0]
    /\ futures = << >>
    /\ yielded = {}
    /\ error = None
    /\ history = << >>

Init ==
    /\ RunInit
    /\ slice_in = SliceIdle /\ slice_out = NotRun
    /\ crop_in = CropIdle /\ crop_out = NotRun
    /\ pot_in = PotIdle /\ pot_out = NotRun

Next ==
    \/ CheckShape
    \/ \E eng \in EngineOutcomes, draw \in NoiseDraws : SeqIter(eng, draw)
    \/ SeqReturn
    \/ SetMaxWorkers
    \/ \E refuse \in BOOLEAN : Factory(refuse)
    \/ Scatter
    \/ Submit
    \/ \E k \in 1..Len(futures) : StartJob(k)
    \/ \E k \in 1..Len(futures), eng \in EngineOutcomes, draw \in NoiseDraws :
          FinishJob(k, eng, draw)
    \/ \E k \in 1..Len(futures) : Collect(k)
    \/ PoolReturn

Spec == Init /\ [][Next]_vars

\* A fixed run state for the specifications of the pure functions.
RunIdle ==
    /\ sim = [angles |-> << >>, ny |-> 1, nx |-> 2, margin |-> 0, num_slices |-> 1,
              box_z |-> 0, atom_z |-> << >>, has_rate |-> FALSE,
              electrons_per_pixel |-> Rate,
              cluster |-> [method |-> None, max_workers |-> 1],
              configured_max_workers |-> 1]
    /\ writer = NewWriter(0, 1, 2)
    /\ nwrites = << >> /\ nexec = << >>
    /\ pc = "idle" /\ next_i = 0
    /\ pool = [created |-> FALSE, workers |-> 0, scatters |-> 0]
    /\ futures = << >> /\ yielded = {} /\ error = None /\ history = << >>

SliceInit ==
    /\ RunIdle
    /\ \E atom_z \in SeqsUpTo(-1..(MaxZ + 1), MaxAtoms), length_z \in 0..MaxZ,
          num_slices \in 0..MaxSlices :
         slice_in = [atom_z |-> atom_z, length_z |-> length_z, num_slices |-> num_slices]
    /\ slice_out = NotRun
    /\ crop_in = CropIdle /\ crop_out = NotRun
    /\ pot_in = PotIdle /\ pot_out = NotRun

SpecSlice == SliceInit /\ [][SliceCall]_vars

CropInit ==
    /\ RunIdle
    /\ slice_in = SliceIdle /\ slice_out = NotRun
    /\ \E i \in 0..1, ny \in 1..MaxDet, nx \in 1..MaxDet, margin \in -1..MaxMargin,
          pad_y \in 0..MaxPad, pad_x \in 0..MaxPad :
         crop_in = [i |-> i, ny |-> ny, nx |-> nx, margin |-> margin,
                    pad_y |-> pad_y, pad_x |-> pad_x]
    /\ crop_out = NotRun
    /\ pot_in = PotIdle /\ pot_out = NotRun

SpecCrop == CropInit /\ [][CropCall]_vars

Thicknesses == {1, 2}
VolumeStarts == {0, 1}

PotentialInit ==
    /\ RunIdle
    /\ slice_in = SliceIdle /\ slice_out = NotRun
    /\ crop_in = CropIdle /\ crop_out = NotRun
    /\ \E ny \in 1..MaxDet, nx \in 1..MaxDet, margin \in -1..MaxMargin,
          pad_y \in 0..MaxPad, pad_x \in 0..MaxPad,
          z0 \in 0..MaxZ, volume_z0 \in VolumeStarts,
          volume_z1 \in {MaxZ, MaxZ + 1}, slice_thickness \in Thicknesses :
         \E z1 \in (z0 + 1)..(MaxZ + 1) :
            pot_in = [ny |-> ny, nx |-> nx, margin |-> margin,
                      pad_y |-> pad_y, pad_x |-> pad_x, z0 |-> z0, z1 |-> z1,
                      volume_z0 |-> volume_z0, volume_z1 |-> volume_z1,
                      slice_thickness |-> slice_thickness]
    /\ pot_out = NotRun

SpecPotential == PotentialInit /\ [][PotentialCall]_vars

\* ---------------------------------------------------------------- claims

\* The sequential loop as a function: the writer after frames i, i+1, ...
\* have been simulated and written in order, for a frame job without noise
\* whose engine returns.
RECURSIVE SequentialRun(_, _, _)
SequentialRun(s, w, i) ==
    IF i >= Len(s.angles) THEN w
    ELSE LET res == SingleImageSimulation(s, i, "ok", 0)
         IN  IF res.raised THEN w
             ELSE SequentialRun(s, WriteResult(w, i, res.angle, res.image), NextIndex(i))

Pooled == sim.cluster.method # None

\* C1: with no noise rate configured, a run that returns, sequential or
\* pooled, leaves the writer with exactly the data and angle contents the
\* sequential loop produces from the freshly allocated writer, whatever the
\* order in which the pooled jobs completed.
C1_PooledEqualsSequential ==
    (pc = "done" /\ ~sim.has_rate) =>
        writer = SequentialRun(sim, NewWriter(writer.shape[1], writer.shape[2],
                                              writer.shape[3]), 0)

\* A pooled run with at least two workers has returned after writing two
\* results out of index order.
C1_Witness ==
    /\ pc = "done" /\ Pooled /\ ~sim.has_rate /\ pool.workers >= 2
    /\ \E a, b \in 1..Len(history) : a < b /\ history[a][2] > history[b][2]

\* The number of frame jobs created for index i: calls in the sequential
\* loop, submissions in pooled mode.
Created(i) ==
    IF Pooled THEN Cardinality({k \in 1..Len(futures) : futures[k].i = i})
    ELSE nexec[i]

\* C2: no index has more than one job created or executed for it, no slot is
\* assigned more than once, and when the run returns every index in
\* [0, num_frames) has had exactly one job and one write.
C2_OneJobOneWritePerIndex ==
    /\ \A i \in Frames : Created(i) <= 1 /\ nexec[i] <= 1
    /\ \A i \in DOMAIN nwrites : nwrites[i] <= 1
    /\ pc = "done" => \A i \in Frames : Created(i) = 1 /\ nexec[i] = 1 /\ nwrites[i] = 1

C2_Witness ==
    /\ pc = "done" /\ NumFrames >= 2
    /\ \A i \in Frames : Created(i) = 1 /\ nwrites[i] = 1

\* C3: the run is in its successful terminal state only when every slot in
\* [0, num_frames) has been written.
C3_DoneOnlyWhenAllWritten ==
    pc = "done" => \A i \in Frames : nwrites[i] >= 1

C3_Witness ==
    pc = "done" /\ Pooled /\ NumFrames >= 2 /\ \A i \in Frames : nwrites[i] >= 1

\* The images job i can return: one per noise draw.
JobImages(i) ==
    {SingleImageSimulation(sim, i, "ok", d).image.a : d \in NoiseDraws}

\* C4: every write went to the slot of the index carried in the result, and
\* every written slot i holds an image of job i and the angle scan.angles[i].
C4_WriteAtOwnIndex ==
    /\ \A h \in 1..Len(history) : history[h][1] = history[h][2]
    /\ \A i \in DOMAIN nwrites :
         nwrites[i] >= 1 =>
            /\ i \in Frames
            /\ writer.angle[i] = sim.angles[i + 1]
            /\ writer.data[i] \in JobImages(i)

\* In pooled mode the result yielded first (j = 0) was that of a later frame
\* and was written to that frame's slot.
C4_Witness ==
    /\ Pooled /\ Len(history) >= 1 /\ history[1][2] >= 1
    /\ nwrites[history[1][2]] = 1 /\ nwrites[0] = 0

\* The preconditions of slice_atom_data on the input of the call: a
\* positive thickness and slab count, at least one atom, every z in [0, Lz].
SliceInputValid ==
    /\ slice_in.length_z > 0
    /\ slice_in.num_slices >= 1
    /\ Len(slice_in.atom_z) >= 1
    /\ \A k \in 1..Len(slice_in.atom_z) :
          slice_in.atom_z[k] >= 0 /\ slice_in.atom_z[k] <= slice_in.length_z

\* The yielded slabs that hold atom k.
SlabsHolding(k) ==
    {n \in 1..Len(slice_out.slices) : k \in slice_out.slices[n].atoms}

\* C5: for N >= 1 and a non-empty atom set with every z in [0, Lz] (Lz > 0),
\* slice_atom_data raises nothing and every input atom is in exactly one of
\* the yielded slabs, atoms on a slab boundary and at z = Lz included.
C5_SlabsPartitionAtoms ==
    (slice_out.done /\ SliceInputValid) =>
        /\ ~slice_out.raised
        /\ \A k \in 1..Len(slice_in.atom_z) : Cardinality(SlabsHolding(k)) = 1
        /\ \A n \in 1..Len(slice_out.slices) :
              slice_out.slices[n].atoms \subseteq 1..Len(slice_in.atom_z)

\* A call with two or more slabs, an atom at z = Lz and an atom exactly on
\* an interior slab boundary.
C5_Witness ==
    /\ slice_out.done /\ SliceInputValid /\ slice_in.num_slices >= 2
    /\ \E k \in 1..Len(slice_in.atom_z) : slice_in.atom_z[k] = slice_in.length_z
    /\ \E k \in 1..Len(slice_in.atom_z), b \in 1..(slice_in.num_slices - 1) :
          slice_in.atom_z[k] * slice_in.num_slices = b * slice_in.length_z
    /\ Len(slice_out.slices) >= 2

\* C6 as claimed: for margin >= 0 and any raw field of shape at least
\* (ny + 2 margin, nx + 2 margin) the cropped image has shape (ny, nx).
C6_AsClaimed ==
    (crop_out.done /\ crop_in.margin >= 0) =>
        ~crop_out.raised /\ Shape(crop_out.image) = <<crop_in.ny, crop_in.nx>>

\* C6, amended: for margin >= 0 the crop raises nothing and removes exactly
\* margin pixels from every edge, so the cropped shape is the raw shape less
\* 2 margin per axis: (ny, nx) exactly when the raw field has shape
\* (ny + 2 margin, nx + 2 margin), and larger by the padding otherwise.
C6_CropRemovesMarginPerEdge ==
    (crop_out.done /\ crop_in.margin >= 0) =>
        /\ ~crop_out.raised
        /\ Shape(crop_out.image) = <<crop_in.ny + crop_in.pad_y, crop_in.nx + crop_in.pad_x>>
        /\ (crop_in.pad_y = 0 /\ crop_in.pad_x = 0) =>
              Shape(crop_out.image) = <<crop_in.ny, crop_in.nx>>
        /\ \A r \in 1..Len(crop_out.image) : \A c \in 1..Len(crop_out.image[r]) :
              crop_out.image[r][c] = RawField(crop_in)[r + crop_in.margin][c + crop_in.margin]

\* A crop with a positive margin of a raw field of exactly the configured
\* sampling has returned a detector-sized image.
C6_Witness ==
    /\ crop_out.done /\ ~crop_out.raised /\ crop_in.margin >= 1
    /\ crop_in.pad_y = 0 /\ crop_in.pad_x = 0
    /\ Shape(crop_out.image) = <<crop_in.ny, crop_in.nx>>

NothingWritten == \A i \in DOMAIN nwrites : nwrites[i] = 0
NothingExecuted == \A i \in Frames : nexec[i] = 0

\* This step is one in which the dispatcher gets a job's exception: a call
\* of the sequential loop that is followed by no write, or a newly yielded
\* future whose job raised.
ObservedRaise ==
    \/ pc = "loop" /\ nexec' # nexec /\ nwrites' = nwrites
    \/ \E k \in yielded' \ yielded : futures[k].result.raised

\* C7: a job's exception leaves Simulation.run: no job is executed or
\* submitted twice, the step that gets the exception ends the run as failed
\* with that error and writes nothing, a failed run stays failed with its
\* writer untouched, and a run that returned holds no raised job.
C7_JobErrorPropagates ==
    /\ [](\A i \in Frames : nexec[i] <= 1 /\ Created(i) <= 1)
    /\ [](pc = "done" =>
            \A k \in 1..Len(futures) :
               futures[k].state = "finished" /\ ~futures[k].result.raised)
    /\ [][ObservedRaise =>
            pc' = "failed" /\ error' # None /\ writer' = writer]_vars
    /\ [][pc = "failed" =>
            pc' = "failed" /\ error' = error /\ writer' = writer /\ nwrites' = nwrites]_vars

\* A run failed on an engine error after a slot had been written, and the
\* failing job was executed once.
C7_Witness ==
    /\ pc = "failed" /\ error = "engine"
    /\ \E i \in Frames : nwrites[i] = 1
    /\ \E i \in Frames : nexec[i] = 1 /\ nwrites[i] = 0

\* C8 as claimed: with a non-positive margin, a thickness <= 0 or a slab
\* count <= 0 no job is executed or submitted and no slot is written.
C8_AsClaimed ==
    (sim.margin <= 0 \/ sim.box_z <= 0 \/ sim.num_slices <= 0) =>
        NothingExecuted /\ futures = << >> /\ NothingWritten

\* The configurations every frame job rejects by its own assertions.
JobRejects ==
    \/ sim.margin < 0
    \/ sim.num_slices <= 0
    \/ sim.num_slices # 1 /\ sim.box_z <= 0

\* C8, amended: with a negative margin, a slab count <= 0, or a thickness
\* <= 0 when the slab count is not 1, every job that ends has raised, no
\* slot is ever written, and a run of at least one frame does not return.
C8_JobsRejectBadConfig ==
    JobRejects =>
        /\ NothingWritten
        /\ \A k \in 1..Len(futures) :
              futures[k].state = "finished" => futures[k].result.raised
        /\ pc = "done" => NumFrames = 0

\* A pooled run of a rejected configuration has failed after two of its
\* jobs were executed, with nothing written.
C8_Witness ==
    /\ JobRejects /\ Pooled /\ pc = "failed" /\ NothingWritten
    /\ Cardinality({k \in 1..Len(futures) : futures[k].state = "finished"}) >= 2

\* C9: a writer whose shape differs from (num_frames, ny, nx) stops the run
\* at its first step: the run is at its start or has failed with the shape
\* error, and no job was executed or submitted, no pool was created, nothing
\* was broadcast and no slot was written.
C9_ShapeCheckedFirst ==
    writer.shape # SimShape =>
        /\ pc \in {"start", "failed"}
        /\ pc = "failed" => error = "shape"
        /\ NothingExecuted /\ futures = << >> /\ NothingWritten
        /\ ~pool.created /\ pool.scatters = 0

C9_Witness ==
    writer.shape # SimShape /\ pc = "failed" /\ error = "shape" /\ Pooled /\ NumFrames >= 1

\* C10: the pool is created with min(configured max_workers, num_frames)
\* workers, so never with more workers than frames.
C10_WorkersBounded ==
    pool.created =>
        /\ pool.workers = Min(sim.configured_max_workers, NumFrames)
        /\ pool.workers <= NumFrames

\* A pool was created for a scan shorter than the configured maximum.
C10_Witness ==
    /\ pool.created /\ sim.configured_max_workers > NumFrames /\ NumFrames >= 1
    /\ pool.workers = NumFrames

\* C11: in pooled mode the context is scattered at most once in any state
\* and exactly once from the moment the submit loop starts; every submitted
\* job carries the handle of that one broadcast, and nothing is scattered in
\* sequential mode.
C11_BroadcastOnceBeforeSubmit ==
    /\ pool.scatters <= 1
    /\ ~Pooled => pool.scatters = 0
    /\ (Pooled /\ pc \in {"submit", "collect", "done"}) => pool.scatters = 1
    /\ futures # << >> => pool.scatters = 1
    /\ \A k \in 1..Len(futures) : futures[k].handle = 1

\* Two jobs have been submitted with the handle of the single broadcast.
C11_Witness ==
    /\ Pooled /\ Len(futures) >= 2 /\ pool.scatters = 1
    /\ \A k \in 1..Len(futures) : futures[k].handle = 1

\* C12 as claimed: a slice_atom_data call on zero atoms, with a positive
\* thickness and slab count, raises nothing and yields zero slabs.
C12_AsClaimed ==
    (slice_out.done /\ Len(slice_in.atom_z) = 0
        /\ slice_in.length_z > 0 /\ slice_in.num_slices > 0) =>
        ~slice_out.raised /\ slice_out.slices = << >>

\* The call has at least one atom, so its smallest and largest z exist.
HasAtoms == Len(slice_in.atom_z) >= 1

\* One of the four preconditions of slice_atom_data is violated.
SlicePreconditionViolated ==
    \/ slice_in.length_z <= 0
    \/ slice_in.num_slices <= 0
    \/ HasAtoms /\ SeqMin(slice_in.atom_z) < 0
    \/ HasAtoms /\ SeqMax(slice_in.atom_z) > slice_in.length_z

\* C13: a call that violates Lz > 0, N > 0, min z >= 0 or max z <= Lz
\* raises and yields no slab, and the error names the first violated
\* precondition in the order the code checks them; a call on at least one
\* atom that meets all four raises nothing.
C13_PreconditionsAreFatal ==
    slice_out.done =>
        /\ SlicePreconditionViolated =>
              slice_out.raised /\ slice_out.slices = << >>
        /\ (HasAtoms /\ ~SlicePreconditionViolated) => ~slice_out.raised
        /\ (HasAtoms /\ slice_out.raised) =>
              slice_out.why =
                 IF slice_in.length_z <= 0 THEN "length_z"
                 ELSE IF slice_in.num_slices <= 0 THEN "num_slices"
                 ELSE IF SeqMin(slice_in.atom_z) < 0 THEN "min_z"
                 ELSE "max_z"

\* A call with valid thickness and slab count and no atom below 0 was
\* refused because an atom lies above Lz.
C13_Witness ==
    /\ slice_out.done /\ slice_out.raised /\ slice_out.why = "max_z"
    /\ Len(slice_in.atom_z) >= 2 /\ slice_in.num_slices >= 2

\* The slabs of a call that returned, and their bounds times num_slices.
Yielded == slice_out.slices
UpperOf(n) == Yielded[n].z0 + Yielded[n].lz

\* The extended upper bound max(Lz, max_z + 1), times num_slices.
ExtendedUpper ==
    Max(slice_in.num_slices * slice_in.length_z,
        (SeqMax(slice_in.atom_z) + 1) * slice_in.num_slices)

\* Non-empty, strictly ascending in z0 and pairwise non-overlapping.
SlabsOrderedDisjoint ==
    /\ \A n \in 1..Len(Yielded) : Yielded[n].atoms # {}
    /\ \A n \in 1..(Len(Yielded) - 1) :
          Yielded[n].z0 < Yielded[n + 1].z0 /\ UpperOf(n) <= Yielded[n + 1].z0

\* C14 as claimed: the yielded slabs are non-empty, ascending and
\* non-overlapping, every yielded slab but the last has thickness Lz/N and
\* the last yielded slab ends at max(Lz, max_z + 1).
C14_AsClaimed ==
    (slice_out.done /\ ~slice_out.raised) =>
        /\ SlabsOrderedDisjoint
        /\ \A n \in 1..(Len(Yielded) - 1) : Yielded[n].lz = slice_in.length_z
        /\ Len(Yielded) >= 1 => UpperOf(Len(Yielded)) = ExtendedUpper

\* Slab n of the yielded ones is the slab of loop index num_slices - 1.
IsTopSlab(n) == Yielded[n].z0 = (slice_in.num_slices - 1) * slice_in.length_z

\* C14, amended: the yielded slabs are non-empty, ascending and
\* non-overlapping; the slab of index N - 1, which is yielded only when an
\* atom lies at or above its z0, ends at max(Lz, max_z + 1), and every other
\* yielded slab has thickness Lz/N.
C14_SlabsOrderedTopExtended ==
    (slice_out.done /\ ~slice_out.raised) =>
        /\ SlabsOrderedDisjoint
        /\ \A n \in 1..Len(Yielded) :
              IF IsTopSlab(n)
              THEN n = Len(Yielded) /\ UpperOf(n) = ExtendedUpper
              ELSE Yielded[n].lz = slice_in.length_z
        /\ (\E n \in 1..Len(Yielded) : IsTopSlab(n)) <=>
              SeqMax(slice_in.atom_z) * slice_in.num_slices
                 >= (slice_in.num_slices - 1) * slice_in.length_z

\* A call with three or more slabs yielded the first and the extended top
\* slab and skipped an empty one between them.
C14_Witness ==
    /\ slice_out.done /\ ~slice_out.raised /\ slice_in.num_slices >= 3
    /\ Len(Yielded) = 2 /\ Yielded[1].z0 = 0 /\ IsTopSlab(2)
    /\ UpperOf(2) > slice_in.num_slices * slice_in.length_z

\* The sequential loop stopped on the exception of job next_i.
SeqJobFailed == ~Pooled /\ pc = "failed" /\ error # "shape"

\* C15: in sequential mode the written slots are exactly the prefix
\* [0, next_i), written in index order, each by the one execution of its
\* job; the job of index next_i has been executed only if it raised and
\* stopped the run, and no job above next_i has been executed.
C15_SequentialPrefix ==
    ~Pooled =>
        /\ next_i \in 0..NumFrames
        /\ \A i \in Frames :
              /\ nwrites[i] = IF i < next_i THEN 1 ELSE 0
              /\ i < next_i => nexec[i] = 1
              /\ i > next_i => nexec[i] = 0
              /\ i = next_i => nexec[i] = IF SeqJobFailed THEN 1 ELSE 0
        /\ Len(history) = next_i
        /\ \A h \in 1..Len(history) : history[h] = <<h - 1, h - 1>>

\* Job 1 of at least three failed on an engine error: slot 0 is written,
\* slots 1 and above are not, and job 2 was never executed.
C15_Witness ==
    /\ SeqJobFailed /\ error = "engine" /\ next_i = 1 /\ NumFrames >= 3
    /\ nwrites[0] = 1 /\ nwrites[1] = 0 /\ nexec[1] = 1 /\ nexec[2] = 0

\* C16: in pooled mode no result is collected or written before all
\* num_frames jobs have been submitted, and in the collect loop every
\* completed future that has not been yielded can be collected at once,
\* whatever the state of the jobs of lower index.
C16_SubmitAllThenCollectAny ==
    Pooled =>
        /\ (yielded # {} \/ history # << >> \/ pc \in {"collect", "done"}) =>
              /\ Len(futures) = NumFrames
              /\ \A i \in Frames : futures[i + 1].i = i
        /\ \A k \in 1..Len(futures) :
              (pc = "collect" /\ k \notin yielded /\ futures[k].state = "finished")
                 => ENABLED Collect(k)

\* The result of a job has been written while a job of lower index is
\* still running.
C16_Witness ==
    /\ Pooled /\ pc = "collect"
    /\ \E k, m \in 1..Len(futures) :
          /\ m < k /\ futures[m].state = "running"
          /\ k \in yielded /\ nwrites[futures[k].i] = 1

\* C17: for every margin >= 0, margin = 0 included, the callback removes
\* margin pixels from every edge of the (ny + 2 margin, nx + 2 margin)
\* field, writes the detector-sized result into the z-slot of index
\* floor(((z0 + z1)/2 - volume_z0) / slice_thickness), and that index is in
\* [0, zsize) for every slab inside the specimen volume.
SlabInsideVolume ==
    pot_in.volume_z0 <= pot_in.z0 /\ pot_in.z1 <= pot_in.volume_z1
ExactField == pot_in.pad_x = 0 /\ pot_in.pad_y = 0
CroppedField ==
    [r \in 1..pot_in.ny |-> [c \in 1..pot_in.nx |->
        PotentialField(pot_in)[c + pot_in.margin][r + pot_in.margin]]]
C17_AsClaimed ==
    (pot_out.done /\ pot_in.margin >= 0 /\ ExactField /\ SlabInsideVolume) =>
        /\ ~pot_out.raised
        /\ pot_out.index = SlotIndex(pot_in)
        /\ pot_out.index \in 0..(ZSize(pot_in) - 1)
        /\ pot_out.potential =
              [NewPotential(pot_in) EXCEPT ![pot_out.index + 1] = CroppedField]

\* The yielded futures whose collection failed, and those whose result was
\* written.
FailedResult(k) ==
    IF futures[k].result.raised THEN TRUE
    ELSE ~Broadcasts(futures[k].result.image, sim.ny, sim.nx)
Undelivered == {k \in yielded : FailedResult(k)}
Delivered == yielded \ Undelivered
WrittenSlots == {i \in Frames : nwrites[i] >= 1}

\* C18: in pooled mode the sink changes only in a step of the collect loop
\* that yields a future and writes that future's result at its own index;
\* the written slots are always exactly the indices of the results
\* delivered without failure; once a failed result has been observed no
\* further future is yielded and nothing further is written, so at failure
\* the written slots are the results delivered before the failing one,
\* whatever completes afterwards.
C18_OnlyDeliveredBeforeFailureWritten ==
    /\ [](Pooled =>
            /\ WrittenSlots = {futures[k].i : k \in Delivered}
            /\ Len(history) = Cardinality(Delivered)
            /\ Cardinality(Undelivered) <= 1
            /\ (Undelivered # {} <=> pc = "failed" /\ error \notin {"shape", "factory"}))
    /\ [][(Pooled /\ (writer' # writer \/ nwrites' # nwrites)) =>
            /\ pc = "collect" /\ Undelivered = {}
            /\ \E k \in yielded' \ yielded :
                  /\ yielded' = yielded \cup {k}
                  /\ futures[k].state = "finished" /\ ~FailedResult(k)
                  /\ history' = Append(history, <<futures[k].i, futures[k].i>>)
                  /\ nwrites' = [nwrites EXCEPT ![futures[k].i] = @ + 1]]_vars
    /\ [][(Pooled /\ Undelivered # {}) =>
            /\ writer' = writer /\ nwrites' = nwrites
            /\ history' = history /\ yielded' = yielded]_vars

\* A pooled run has failed on a job's error after a result was written,
\* and a job that completed successfully is left uncollected and unwritten.
C18_Witness ==
    /\ Pooled /\ pc = "failed" /\ Undelivered # {} /\ Delivered # {}
    /\ \E k \in 1..Len(futures) :
          /\ k \notin yielded
          /\ futures[k].state = "finished" /\ ~futures[k].result.raised
          /\ nwrites[futures[k].i] = 0

====
